---- MODULE Spec2Model ----
(***************************************************************************)
(* The capture -> effects -> metering -> encode -> distribute pipeline of  *)
(* src-tauri/src/audio/mod.rs (AudioEngine), driven by the command         *)
(* handlers of src-tauri/src/commands/mod.rs.                              *)
(*                                                                         *)
(* Two execution domains are modelled:                                     *)
(*  - the control plane: the tauri commands take the tokio Mutex around    *)
(*    the engine (and the engine methods take &mut self), so control-plane *)
(*    calls never overlap each other; start_capture is split at the points *)
(*    where the platform's capture threads can observe its progress        *)
(*    (stream built, stream playing, handle stored);                       *)
(*  - one capture thread per cpal stream, running the data callback of     *)
(*    start_capture, split at its lock acquisitions.                       *)
(* Samples are fixed-point integers in units of 1/Unit.                    *)
(***************************************************************************)
EXTENDS Integers, Sequences, FiniteSets, TLC

\* ---------------------------------------------------------------- bounds
MaxBlocks == 2      \* blocks the platform delivers in one behaviour
MaxChain == 2       \* longest Effects Chain built by add_effect
MaxCalls == 4      \* control-plane calls made in one behaviour
MaxSubs == 2        \* receivers created by subscribe_to_audio
Capacity == 1       \* frames the bus retains (broadcast::channel(1024), scaled down)

\* ------------------------------------------------------------- constants
Unit == 10 ^ 3

Streams == {1, 2}
NoStream == 0
Subs == 1..MaxSubs

\* AudioConfig values handed to AudioEngine::new: AudioConfig::default(), and
\* one whose sample rate opus rejects.
Configs ==
  { [sample_rate |-> 48000, channels |-> 2],
    [sample_rate |-> 44100, channels |-> 2] }

OpusRates == {8000, 12000, 16000, 24000, 48000}

\* opus::Channels::Stereo
Stereo == 2

\* An AudioConfig for a mono source.
MonoConfigs == { [sample_rate |-> 48000, channels |-> 1] }

\* The raw block the capture subsystem delivers (interleaved samples).
BlockInputs == { <<900, 0 - 500>> }

VARIABLES
  engine,         \* "unbuilt" | "ok" | "failed": outcome of AudioEngine::new
  input_device,   \* Option<cpal::Device>: TRUE = Some
  sample_rate,    \* AudioEngine.sample_rate
  channels,       \* AudioEngine.channels
  encoder,        \* configuration of the opus::Encoder
  decoder,        \* configuration of the opus::Decoder
  effects_chain,  \* Vec<Box<dyn AudioEffect>>
  chainLock,      \* holder of the effects_chain mutex: NoStream (free) or a stream
  monitoring_enabled, \* the flag set_monitoring stores
  current_levels, \* AudioLevels
  levelsBlk,      \* id of the block whose metering current_levels holds (0: none)
  levelsOf,       \* the peak and rms computed for that block
  levelsLock,     \* holder of the current_levels mutex: NoStream (free) or a stream
  encoderLock,    \* holder of the encoder mutex: NoStream (free) or a stream
  levelsRead,     \* what the last get_current_levels returned
  stream,         \* Option<cpal::Stream> stored in the engine: NoStream = None
  built,          \* cpal streams that exist (built, not yet dropped)
  running,        \* cpal streams that are playing: their callback is being invoked
  cb,             \* per stream: position of its capture thread in the callback
  nextBlock,      \* id the next captured block gets (capture order)
  ctl,            \* position of the control plane inside start_capture
  returns,        \* the last three completed start_capture / stop_capture calls: << name, result >>
  errlog,         \* log::error!("Encoding error"): ids of the blocks it was logged for
  sent,           \* frames the bus accepted, oldest first (only the last Capacity are retained)
  subs,           \* per receiver: cursor into sent and what it has seen
  calls,          \* control-plane calls made so far
  unit            \* an effect exercised on its own: its state and its last call

vars == << engine, input_device, sample_rate, channels, encoder, decoder,
           effects_chain, chainLock, monitoring_enabled, current_levels,
           levelsBlk, levelsOf, levelsLock, levelsRead, stream, built, running, cb, nextBlock, ctl, returns, errlog, sent,
           subs, calls, unit, encoderLock >>

\* Everything but the effect exercised on its own.
pipelineVars ==
  << engine, input_device, sample_rate, channels, encoder, decoder,
     effects_chain, chainLock, monitoring_enabled, current_levels,
     levelsBlk, levelsOf, levelsLock, levelsRead, stream, built, running, cb,
     nextBlock, ctl, returns, errlog, sent, subs, calls, encoderLock >>

configVars == << engine, input_device, sample_rate, channels, encoder, decoder >>
engineVars == << configVars, encoderLock >>
streamVars == << stream, built, running >>
busVars == << sent, subs >>
chainVars == << effects_chain, chainLock >>
levelVars ==
  << current_levels, levelsBlk, levelsOf, levelsLock, levelsRead, monitoring_enabled >>

\* ------------------------------------------------------------- data types
\* impl Default for AudioLevels
AudioLevelsDefault ==
  [input_level |-> 0, output_level |-> 0, peak |-> 0, rms |-> 0]

\* A capture thread outside the callback.  Inside it: the block's capture
\* number, the raw samples (data), the processed samples (output), the effects
\* applied so far, and the chain as it was when the chain lock was taken.
IdleCb ==
  [pc |-> "idle", id |-> 0, data |-> << >>, output |-> << >>,
   applied |-> << >>, snap |-> << >>, peak |-> 0, rms |-> 0]

\* get_current_levels has not been called.
NotRead == [called |-> FALSE, levels |-> AudioLevelsDefault, blk |-> 0]

\* A receiver: its cursor (position in sent of the frame it reads next), where
\* the cursor started, and the sum of the Lagged(n) it was told.
NoSub == [active |-> FALSE, next |-> 1, start |-> 1, lost |-> 0]

\* f32 values outside the finite range: 0.0 / 0.0, and x / 0.0 for x > 0.
NaN == 0 - (2 * (10 ^ 9))

Infinity == 10 ^ 9

\* f32::abs
Abs(x) == IF x = NaN THEN NaN ELSE IF x < 0 THEN 0 - x ELSE x

\* f32::max: a NaN operand is ignored
Max(a, b) == IF a > b THEN a ELSE b

\* a > b on f32: false when either side is NaN
Gt(a, b) == a # NaN /\ b # NaN /\ a > b

\* a < b on f32: false when either side is NaN
Lt(a, b) == a # NaN /\ b # NaN /\ a < b

RECURSIVE ISqrtFrom(_, _)
\* Newton's iteration from above: stops at the floor of the square root.
\* The next iterate y is bound as the element of a set, so that it is a
\* value when the iteration goes on.
ISqrtFrom(n, x) ==
  CHOOSE r \in {IF y >= x THEN x ELSE ISqrtFrom(n, y) :
                  y \in {(x + n \div x) \div 2}} : TRUE

\* f32::sqrt on fixed-point values, rounded down
ISqrt(n) == IF n = 0 THEN 0 ELSE ISqrtFrom(n, n)

\* f32 multiplication of two fixed-point values (rounds toward zero)
Mul(a, b) ==
  IF a = NaN \/ b = NaN THEN NaN
  ELSE IF Abs(a) = Infinity \/ Abs(b) = Infinity
    THEN IF a = 0 \/ b = 0 THEN NaN
         ELSE IF (a < 0) = (b < 0) THEN Infinity ELSE 0 - Infinity
  ELSE IF (a < 0) = (b < 0) THEN (Abs(a) * Abs(b)) \div Unit
  ELSE 0 - ((Abs(a) * Abs(b)) \div Unit)

\* f32 division of two fixed-point values (rounds toward zero)
Div(a, b) ==
  IF a = NaN \/ b = NaN THEN NaN
  ELSE IF Abs(a) = Infinity
    THEN IF Abs(b) = Infinity THEN NaN
         ELSE IF (a < 0) = (b < 0) THEN Infinity ELSE 0 - Infinity
  ELSE IF Abs(b) = Infinity THEN 0
  ELSE IF b = 0
    THEN IF a = 0 THEN NaN ELSE IF a > 0 THEN Infinity ELSE 0 - Infinity
  ELSE IF (a < 0) = (b < 0) THEN (Abs(a) * Unit) \div Abs(b)
  ELSE 0 - ((Abs(a) * Unit) \div Abs(b))

\* f32 addition
Add(a, b) ==
  IF a = NaN \/ b = NaN THEN NaN
  ELSE IF Abs(a) = Infinity
    THEN IF Abs(b) = Infinity /\ a # b THEN NaN ELSE a
  ELSE IF Abs(b) = Infinity THEN b
  ELSE a + b

\* f32 subtraction
Sub(a, b) == Add(a, IF b = NaN THEN NaN ELSE 0 - b)

RECURSIVE SumSq(_)
SumSq(s) == IF s = << >> THEN 0 ELSE Head(s) * Head(s) + SumSq(Tail(s))

RECURSIVE PeakOf(_)
\* processed.iter().map(|s| s.abs()).fold(0.0f32, f32::max)
PeakOf(s) == IF s = << >> THEN 0 ELSE Max(Abs(Head(s)), PeakOf(Tail(s)))

\* (processed.iter().map(|s| s * s).sum::<f32>() / processed.len() as f32).sqrt()
RmsOf(s) == IF Len(s) = 0 THEN NaN ELSE ISqrt(SumSq(s) \div Len(s))

\* ---------------------------------------------------------------- effects
\* EqualizerEffect::new: ten bands, gain 0
EqualizerNew == [kind |-> "Equalizer", bands |-> [i \in 1..10 |-> 0]]

\* ReverbEffect::new with an empty EffectParams
ReverbNew ==
  [kind |-> "Reverb", room_size |-> 500, damping |-> 500,
   wet_level |-> 300, dry_level |-> 700]

\* A compressor whose default makeup gain doubles the signal.
CompressorNewBoost ==
  [kind |-> "Compressor", threshold |-> 0 - (20 * Unit), ratio |-> 4 * Unit,
   attack |-> Unit \div 100, release |-> Unit \div 10, makeup_gain |-> 2 * Unit]

\* CompressorEffect::new with an empty EffectParams
CompressorNew ==
  [kind |-> "Compressor", threshold |-> 0 - (20 * Unit), ratio |-> 4 * Unit,
   attack |-> Unit \div 100, release |-> Unit \div 10, makeup_gain |-> Unit]

\* NoiseGateEffect::new with an empty EffectParams
NoiseGateNew ==
  [kind |-> "Noise Gate", threshold |-> 0 - (40 * Unit), ratio |-> 10 * Unit,
   attack |-> Unit \div 1000, release |-> Unit \div 10]

\* CompressorEffect::new with threshold -10 and attack 0.1 in its EffectParams:
\* a compressor whose envelope crosses the threshold within a short block.
CompressorFast ==
  [CompressorNew EXCEPT !.threshold = 0 - (10 * Unit), !.attack = Unit \div 10]

\* The effects apply_audio_effect is asked for: a linear one and one whose
\* gain depends on the samples before.
EffectChoices == {ReverbNew, CompressorFast}

\* EQBand::apply: input.to_vec()
EQBandApply(gain, input) == input

RECURSIVE EqualizerBands(_, _, _)
EqualizerBands(e, i, output) ==
  IF i > Len(e.bands) THEN output
  ELSE EqualizerBands(e, i + 1, EQBandApply(e.bands[i], output))

\* EqualizerEffect::process
EqualizerProcess(e, input) == EqualizerBands(e, 1, input)

\* Samples folded in one recursion when a block is evaluated.
Stride == 2 ^ 5

\* Envelope follower shared by the compressor and the gate:
\* envelope += (target - envelope) * rate
Follow(e, envelope, target) ==
  LET rate == IF Gt(target, envelope) THEN e.attack ELSE e.release
  IN Add(envelope, Mul(Sub(target, envelope), rate))

\* self.threshold.abs() / 100.0
ThresholdLinear(e) == Div(Abs(e.threshold), 100 * Unit)

\* A gain computed for every sample, dividing by the envelope itself.
CompressorGainUnguarded(e, envelope) ==
  LET over == Sub(envelope, ThresholdLinear(e))
      compressed == Div(over, e.ratio)
  IN Div(Add(ThresholdLinear(e), compressed), envelope)

\* CompressorEffect::process, the gain of one sample: 1.0 unless the envelope
\* is over the threshold
CompressorGain(e, envelope) ==
  IF Gt(envelope, ThresholdLinear(e))
    THEN LET over == Sub(envelope, ThresholdLinear(e))
             compressed == Div(over, e.ratio)
         IN Div(Add(ThresholdLinear(e), compressed), Max(envelope, Unit \div 1000))
    ELSE Unit

RECURSIVE CompressorRun(_, _, _, _, _)
\* for &sample in input { .. } up to the n-th sample
CompressorRun(e, input, n, envelope, output) ==
  IF Len(output) >= n THEN [envelope |-> envelope, output |-> output]
  ELSE LET sample == input[Len(output) + 1]
           env == Follow(e, envelope, Abs(sample))
           gain == CompressorGain(e, env)
       IN CompressorRun(e, input, n, env,
                        Append(output, Mul(Mul(sample, gain), e.makeup_gain)))

RECURSIVE CompressorLoop(_, _, _, _)
\* for &sample in input { .. }, evaluated Stride samples at a time: the
\* envelope after the loop and the output
CompressorLoop(e, input, envelope, output) ==
  IF Len(output) = Len(input) THEN [envelope |-> envelope, output |-> output]
  ELSE LET n == IF Len(output) + Stride < Len(input) THEN Len(output) + Stride
                ELSE Len(input)
           r == CompressorRun(e, input, n, envelope, output)
       IN CompressorLoop(e, input, r.envelope, r.output)

\* CompressorEffect::process: the envelope starts at 0.0
CompressorProcess(e, input) == CompressorLoop(e, input, 0, << >>).output

\* ReverbEffect::process
ReverbProcess(e, input) ==
  [i \in 1..Len(input) |->
     Add(Mul(Mul(input[i], e.wet_level), e.room_size), Mul(input[i], e.dry_level))]

\* NoiseGateEffect::process, the gain of one sample
NoiseGateGain(e, envelope) ==
  IF Lt(envelope, ThresholdLinear(e)) THEN Div(Unit, e.ratio) ELSE Unit

RECURSIVE NoiseGateRun(_, _, _, _, _)
\* for &sample in input { .. } up to the n-th sample
NoiseGateRun(e, input, n, envelope, output) ==
  IF Len(output) >= n THEN [envelope |-> envelope, output |-> output]
  ELSE LET sample == input[Len(output) + 1]
           env == Follow(e, envelope, Abs(sample))
       IN NoiseGateRun(e, input, n, env,
                       Append(output, Mul(sample, NoiseGateGain(e, env))))

RECURSIVE NoiseGateLoop(_, _, _, _)
\* for &sample in input { .. }, evaluated Stride samples at a time: the
\* envelope after the loop and the output
NoiseGateLoop(e, input, envelope, output) ==
  IF Len(output) = Len(input) THEN [envelope |-> envelope, output |-> output]
  ELSE LET n == IF Len(output) + Stride < Len(input) THEN Len(output) + Stride
                ELSE Len(input)
           r == NoiseGateRun(e, input, n, envelope, output)
       IN NoiseGateLoop(e, input, r.envelope, r.output)

\* A gate that removes the samples it silences instead of passing them on.
NoiseGateProcessCut(e, input) ==
  SelectSeq(NoiseGateLoop(e, input, 0, << >>).output, LAMBDA x : x # 0)

\* NoiseGateEffect::process: the envelope starts at 0.0
NoiseGateProcess(e, input) == NoiseGateLoop(e, input, 0, << >>).output

\* dyn AudioEffect::process
Process(e, input) ==
  CASE e.kind = "Equalizer" -> EqualizerProcess(e, input)
    [] e.kind = "Compressor" -> CompressorProcess(e, input)
    [] e.kind = "Reverb" -> ReverbProcess(e, input)
    [] e.kind = "Noise Gate" -> NoiseGateProcess(e, input)

RECURSIVE ProcessAll(_, _)
\* The block after the effects of chain c, in order.
ProcessAll(c, input) ==
  IF c = << >> THEN input ELSE ProcessAll(Tail(c), Process(Head(c), input))

\* ------------------------------------------------- effect parameters
\* Parameter names are strings, modelled as the sequence of their characters.
BandPrefix == << "b", "a", "n", "d", "_" >>

N_threshold == << "t", "h", "r", "e", "s", "h", "o", "l", "d" >>

N_ratio == << "r", "a", "t", "i", "o" >>

N_attack == << "a", "t", "t", "a", "c", "k" >>

N_release == << "r", "e", "l", "e", "a", "s", "e" >>

N_makeup == << "m", "a", "k", "e", "u", "p" >>

N_room_size == << "r", "o", "o", "m", "_", "s", "i", "z", "e" >>

N_damping == << "d", "a", "m", "p", "i", "n", "g" >>

N_wet_level == << "w", "e", "t", "_", "l", "e", "v", "e", "l" >>

N_dry_level == << "d", "r", "y", "_", "l", "e", "v", "e", "l" >>

N_bogus == << "b", "o", "g", "u", "s" >>

Digits == << "0", "1", "2", "3", "4", "5", "6", "7", "8", "9" >>

\* The value of a decimal digit character.
DigitValue(c) == CHOOSE d \in 0..9 : Digits[d + 1] = c

RECURSIVE ParseDigits(_, _)
\* The number a run of digit characters denotes, after the digits read so far.
ParseDigits(s, acc) ==
  IF s = << >> THEN acc ELSE ParseDigits(Tail(s), acc * 10 + DigitValue(Head(s)))

\* What parsing failed returns.
ParseErr == 0 - 1

\* str::parse::<usize>: an optional "+" and at least one digit, nothing else
\* (leading zeros are accepted)
ParseUsize(s) ==
  LET digits == IF s # << >> /\ Head(s) = "+" THEN Tail(s) ELSE s
  IN IF digits = << >> \/ \E i \in 1..Len(digits) : \A d \in 1..10 : Digits[d] # digits[i]
       THEN ParseErr
       ELSE ParseDigits(digits, 0)

\* str::strip_prefix: None is returned as << "" >>, which no name contains
StripPrefix(name, prefix) ==
  IF Len(name) >= Len(prefix) /\ SubSeq(name, 1, Len(prefix)) = prefix
    THEN SubSeq(name, Len(prefix) + 1, Len(name))
    ELSE << "" >>

\* One EffectParameter
Param(name, value, min, max) ==
  [name |-> name, value |-> value, min |-> min, max |-> max]

\* AudioEffect::get_parameters
GetParameters(e) ==
  CASE e.kind = "Equalizer" ->
         [i \in 1..Len(e.bands) |->
            Param(BandPrefix \o << Digits[i] >>, e.bands[i], 0 - (12 * Unit), 12 * Unit)]
    [] e.kind = "Compressor" ->
         << Param(N_threshold, e.threshold, 0 - (60 * Unit), 0),
            Param(N_ratio, e.ratio, Unit, 20 * Unit),
            Param(N_attack, e.attack, Unit \div 1000, Unit \div 10),
            Param(N_release, e.release, Unit \div 100, Unit),
            Param(N_makeup, e.makeup_gain, 0, 24 * Unit) >>
    [] e.kind = "Reverb" ->
         << Param(N_room_size, e.room_size, 0, Unit),
            Param(N_damping, e.damping, 0, Unit),
            Param(N_wet_level, e.wet_level, 0, Unit),
            Param(N_dry_level, e.dry_level, 0, Unit) >>
    [] e.kind = "Noise Gate" ->
         << Param(N_threshold, e.threshold, 0 - (80 * Unit), 0),
            Param(N_ratio, e.ratio, Unit, 100 * Unit),
            Param(N_attack, e.attack, Unit \div 1000, Unit \div 10),
            Param(N_release, e.release, Unit \div 100, Unit) >>

\* EqualizerEffect::set_parameter
EqualizerSetParameter(e, name, value) ==
  LET suffix == StripPrefix(name, BandPrefix)
      band_idx == IF suffix = << "" >> THEN ParseErr ELSE ParseUsize(suffix)
  IN IF band_idx # ParseErr /\ band_idx < Len(e.bands)
       THEN [e EXCEPT !.bands[band_idx + 1] = value]
       ELSE e

\* CompressorEffect::set_parameter
CompressorSetParameter(e, name, value) ==
  CASE name = N_threshold -> [e EXCEPT !.threshold = value]
    [] name = N_ratio -> [e EXCEPT !.ratio = value]
    [] name = N_attack -> [e EXCEPT !.attack = value]
    [] name = N_release -> [e EXCEPT !.release = value]
    [] name = N_makeup -> [e EXCEPT !.makeup_gain = value]
    [] OTHER -> e

\* ReverbEffect::set_parameter
ReverbSetParameter(e, name, value) ==
  CASE name = N_room_size -> [e EXCEPT !.room_size = value]
    [] name = N_damping -> [e EXCEPT !.damping = value]
    [] name = N_wet_level -> [e EXCEPT !.wet_level = value]
    [] name = N_dry_level -> [e EXCEPT !.dry_level = value]
    [] OTHER -> e

\* NoiseGateEffect::set_parameter
NoiseGateSetParameter(e, name, value) ==
  CASE name = N_threshold -> [e EXCEPT !.threshold = value]
    [] name = N_ratio -> [e EXCEPT !.ratio = value]
    [] name = N_attack -> [e EXCEPT !.attack = value]
    [] name = N_release -> [e EXCEPT !.release = value]
    [] OTHER -> e

\* dyn AudioEffect::set_parameter
SetParameter(e, name, value) ==
  CASE e.kind = "Equalizer" -> EqualizerSetParameter(e, name, value)
    [] e.kind = "Compressor" -> CompressorSetParameter(e, name, value)
    [] e.kind = "Reverb" -> ReverbSetParameter(e, name, value)
    [] e.kind = "Noise Gate" -> NoiseGateSetParameter(e, name, value)

\* -------------------------------------------------------------------- bus
\* Position of the oldest frame the bus still retains.
Oldest == Max(1, Len(sent) - Capacity + 1)

ActiveSubs == {s \in Subs : subs[s].active}

\* Frames receiver r has not read yet (counting those already overwritten).
Unread(r) == Len(sent) + 1 - subs[r].next

\* A send that waits until every receiver has room, as a bounded queue does.
BusSendBlocking(frame) ==
  /\ \A r \in ActiveSubs : Unread(r) < Capacity
  /\ sent' = IF ActiveSubs = {} THEN sent ELSE Append(sent, frame)
  /\ UNCHANGED subs

\* broadcast::Sender::send: with no receiver the value is returned in an Err
\* (which the callback ignores); otherwise it is stored, overwriting the
\* oldest slot when the ring is full.  It never waits for a receiver.
BusSend(frame) ==
  /\ sent' = IF ActiveSubs = {} THEN sent ELSE Append(sent, frame)
  /\ UNCHANGED subs

\* ------------------------------------------------- an effect on its own
RECURSIVE SetAll(_, _, _)
\* Effect e with its parameters from the i-th on set to the upper or the lower
\* end of the range get_parameters advertises.
SetAll(e, i, upper) ==
  IF i > Len(GetParameters(e)) THEN e
  ELSE LET p == GetParameters(e)[i]
       IN SetAll(SetParameter(e, p.name, IF upper THEN p.max ELSE p.min), i + 1, upper)

\* The four effects as their constructors build them.
DefaultEffects == {EqualizerNew, CompressorNew, ReverbNew, NoiseGateNew}

\* The effects exercised: each kind with its default parameters and with all
\* parameters at either end of their ranges, and the fast compressor.
UnitEffects ==
  DefaultEffects \cup {CompressorFast}
    \cup {SetAll(e, 1, u) : e \in DefaultEffects, u \in BOOLEAN}

\* AudioConfig::default().buffer_size: the samples of one captured block
FrameSize == 960

\* A block of constant amplitude 0.9
Tone == [i \in 1..FrameSize |-> 900]

\* The blocks handed to process: none, silence, a short block, a full one.
UnitBlocks == << << >>, << 0, 0, 0 >>, << 900, 0 - 500 >>, Tone >>

\* The names and the value handed to set_parameter.
UnitNames ==
  { N_bogus, N_threshold, N_wet_level,
    BandPrefix, BandPrefix \o << "3" >>, BandPrefix \o << "1", "0" >>,
    BandPrefix \o << "x" >>, BandPrefix \o << "0", "3" >>,
    BandPrefix \o << "+", "3" >>, BandPrefix \o << "-", "1" >> }

UnitValues == { Unit \div 2 }

\* The chains the callback's effects step is exercised with.
UnitChains ==
  UNION { [1..n -> EffectChoices] : n \in 0..MaxChain }

\* Every effect the exercise can reach: set_parameter applied to UnitEffects.
ReachableEffects ==
  UnitEffects
    \cup {SetParameter(e, n, v) : e \in UnitEffects, n \in UnitNames, v \in UnitValues}

\* process is a function of the effect and the block only (&self, no interior
\* mutability): its results for the effects and blocks exercised, evaluated once.
Processed ==
  [e \in ReachableEffects |-> [k \in DOMAIN UnitBlocks |-> Process(e, UnitBlocks[k])]]

\* Nothing was called yet.
NoCall ==
  [op |-> "none", name |-> << >>, value |-> 0, chain |-> << >>,
   input |-> << >>, output |-> << >>, before |-> << >>, after |-> << >>]

\* No block was processed since the parameters were last changed.
NoFirst == [k |-> 0, output |-> << >>, between |-> FALSE, again |-> FALSE]

\* An effect just constructed.  last is the last call made on it; first the
\* first block processed with the present parameters (its index in
\* UnitBlocks) and its output, whether another block was processed after it
\* (between) and whether it was then processed again; envelope what an
\* envelope kept between calls would hold (the code keeps none).
Fresh(e) == [effect |-> e, last |-> NoCall, first |-> NoFirst, envelope |-> 0]

\* No effect is exercised on its own.
NoUnit == [effect |-> << >>, last |-> NoCall, first |-> NoFirst, envelope |-> 0]

\* ------------------------------------------------------------------- Init
\* The engine before AudioEngine::new.
EngineInit ==
  /\ engine = "unbuilt"
  /\ input_device = FALSE
  /\ sample_rate = 0
  /\ channels = 0
  /\ encoder = [sample_rate |-> 0, channels |-> 0]
  /\ decoder = [sample_rate |-> 0, channels |-> 0]
  /\ effects_chain = << >>
  /\ chainLock = NoStream
  /\ monitoring_enabled = FALSE
  /\ current_levels = AudioLevelsDefault
  /\ levelsBlk = 0
  /\ levelsOf = [peak |-> 0, rms |-> 0]
  /\ levelsLock = NoStream
  /\ encoderLock = NoStream
  /\ levelsRead = NotRead
  /\ stream = NoStream
  /\ built = {}
  /\ running = {}
  /\ cb = [s \in Streams |-> IdleCb]
  /\ nextBlock = 1
  /\ ctl = [pc |-> "idle", new |-> NoStream]
  /\ returns = << >>
  /\ errlog = {}
  /\ sent = << >>
  /\ calls = 0
  /\ subs = [s \in Subs |-> NoSub]

Init == EngineInit /\ unit = NoUnit

\* ---------------------------------------------------------- control plane
\* AudioEngine::new
New(config, inDev) ==
  /\ engine = "unbuilt"
  /\ IF config.sample_rate \in OpusRates
       THEN /\ engine' = "ok"
            /\ input_device' = inDev
            /\ sample_rate' = config.sample_rate
            /\ channels' = config.channels
            /\ encoder' = [sample_rate |-> config.sample_rate, channels |-> Stereo]
            /\ decoder' = [sample_rate |-> config.sample_rate, channels |-> Stereo]
       ELSE /\ engine' = "failed"
            /\ UNCHANGED << input_device, sample_rate, channels, encoder, decoder >>
  /\ UNCHANGED << calls, unit, encoderLock >>
  /\ UNCHANGED errlog
  /\ UNCHANGED << chainVars, levelVars, streamVars, cb,
                  nextBlock, ctl, returns, busVars >>

\* A control-plane call can begin: the engine exists and no other call is
\* inside it (tokio Mutex around the engine, &mut self).
Callable == engine = "ok" /\ ctl.pc = "idle" /\ calls < MaxCalls

\* The most recent entry of returns.
LastReturn == returns[Len(returns)]

\* A call returns res to its caller.
Returned(op, res) ==
  returns' = IF Len(returns) < 3 THEN Append(returns, << op, res >>)
             ELSE Append(Tail(returns), << op, res >>)

\* A drop that does not wait for the capture thread.
CanDropNoJoin(s) == TRUE

\* Dropping a cpal::Stream stops it and joins its capture thread, so the drop
\* completes only between two invocations of the callback.
CanDrop(s) == IF s = NoStream THEN TRUE ELSE cb[s].pc = "idle"

\* start_capture ignoring the missing device.
StartNoDeviceSilent ==
  /\ Callable
  /\ calls' = calls + 1
  /\ UNCHANGED unit
  /\ ~input_device
  /\ Returned("start_capture", "Ok")
  /\ UNCHANGED errlog
  /\ UNCHANGED << engineVars, chainVars, levelVars,
                  streamVars, cb, nextBlock, ctl, busVars >>

\* start_capture, no input device: ok_or(AudioError::NoInputDevice)?
StartNoDevice ==
  /\ Callable
  /\ calls' = calls + 1
  /\ UNCHANGED unit
  /\ ~input_device
  /\ Returned("start_capture", "NoInputDevice")
  /\ UNCHANGED errlog
  /\ UNCHANGED << engineVars, chainVars, levelVars,
                  streamVars, cb, nextBlock, ctl, busVars >>

\* start_capture: default_input_config()? or build_input_stream(..)? fails
StartOpenError(err) ==
  /\ Callable
  /\ calls' = calls + 1
  /\ UNCHANGED unit
  /\ input_device
  /\ Returned("start_capture", err)
  /\ UNCHANGED errlog
  /\ UNCHANGED << engineVars, chainVars, levelVars,
                  streamVars, cb, nextBlock, ctl, busVars >>

\* start_capture up to build_input_stream: the new stream exists, with the
\* callback installed; some platforms run a stream as soon as it is built.
StartBuild(autoRun) ==
  /\ Callable
  /\ calls' = calls + 1
  /\ UNCHANGED unit
  /\ input_device
  /\ \E n \in Streams \ built :
       /\ \A m \in Streams \ built : n <= m
       /\ built' = built \cup {n}
       /\ running' = IF autoRun THEN running \cup {n} ELSE running
       /\ ctl' = [pc |-> "play", new |-> n]
  /\ UNCHANGED errlog
  /\ UNCHANGED << engineVars, chainVars, levelVars,
                  stream, cb, nextBlock, returns, busVars >>

\* start_capture: stream.play()? succeeds
StartPlay ==
  /\ ctl.pc = "play"
  /\ running' = running \cup {ctl.new}
  /\ ctl' = [ctl EXCEPT !.pc = "store"]
  /\ UNCHANGED << calls, unit >>
  /\ UNCHANGED errlog
  /\ UNCHANGED << engineVars, chainVars, levelVars,
                  stream, built, cb, nextBlock, returns, busVars >>

\* A play failure that also gives up the stream stored before.
StartPlayErrorStops ==
  /\ ctl.pc = "play"
  /\ ctl.new \notin running
  /\ CanDrop(stream)
  /\ built' = built \ {ctl.new, stream}
  /\ running' = running \ {stream}
  /\ stream' = NoStream
  /\ ctl' = [pc |-> "idle", new |-> NoStream]
  /\ Returned("start_capture", "PlayStreamError")
  /\ UNCHANGED << calls, unit >>
  /\ UNCHANGED errlog
  /\ UNCHANGED << engineVars, chainVars, levelVars,
                  cb, nextBlock, busVars >>

\* start_capture: stream.play()? fails (on a stream that is not running yet);
\* the new stream is dropped on return
StartPlayError ==
  /\ ctl.pc = "play"
  /\ ctl.new \notin running
  /\ built' = built \ {ctl.new}
  /\ ctl' = [pc |-> "idle", new |-> NoStream]
  /\ Returned("start_capture", "PlayStreamError")
  /\ UNCHANGED << calls, unit >>
  /\ UNCHANGED errlog
  /\ UNCHANGED << engineVars, chainVars, levelVars,
                  stream, running, cb, nextBlock, busVars >>

\* start_capture: *self.stream.lock().unwrap() = Some(stream); Ok(())
\* The assignment drops the stream stored before.
StartStore ==
  /\ ctl.pc = "store"
  /\ CanDrop(stream)
  /\ built' = built \ {stream}
  /\ running' = running \ {stream}
  /\ stream' = ctl.new
  /\ ctl' = [pc |-> "idle", new |-> NoStream]
  /\ Returned("start_capture", "Ok")
  /\ UNCHANGED << calls, unit >>
  /\ UNCHANGED errlog
  /\ UNCHANGED << engineVars, chainVars, levelVars,
                  cb, nextBlock, busVars >>

\* stop_capture refusing to stop when nothing is capturing.
StopCaptureStrict ==
  /\ Callable
  /\ calls' = calls + 1
  /\ UNCHANGED unit
  /\ CanDrop(stream)
  /\ built' = built \ {stream}
  /\ running' = running \ {stream}
  /\ stream' = NoStream
  /\ Returned("stop_capture", IF stream = NoStream THEN "DeviceError" ELSE "Ok")
  /\ UNCHANGED errlog
  /\ UNCHANGED << engineVars, chainVars, levelVars,
                  cb, nextBlock, ctl, busVars >>

\* stop_capture emptying the handle without dropping the stream.
StopCaptureLeak ==
  /\ Callable
  /\ calls' = calls + 1
  /\ UNCHANGED unit
  /\ stream' = NoStream
  /\ Returned("stop_capture", "Ok")
  /\ UNCHANGED errlog
  /\ UNCHANGED << engineVars, chainVars, levelVars, built, running,
                  cb, nextBlock, ctl, busVars >>

\* stop_capture
StopCapture ==
  /\ Callable
  /\ calls' = calls + 1
  /\ UNCHANGED unit
  /\ CanDrop(stream)
  /\ built' = built \ {stream}
  /\ running' = running \ {stream}
  /\ stream' = NoStream
  /\ Returned("stop_capture", "Ok")
  /\ UNCHANGED errlog
  /\ UNCHANGED << engineVars, chainVars, levelVars,
                  cb, nextBlock, ctl, busVars >>

\* The effects_chain mutex can be taken.
ChainLockFree == chainLock = NoStream

\* add_effect pushing without holding the effects_chain mutex.
AddEffectNoLock(effect) ==
  /\ Callable
  /\ calls' = calls + 1
  /\ UNCHANGED unit
  /\ Len(effects_chain) < MaxChain
  /\ effects_chain' = Append(effects_chain, effect)
  /\ UNCHANGED << returns, errlog >>
  /\ UNCHANGED << engineVars, chainLock, levelVars,
                  streamVars, cb, nextBlock, ctl, busVars >>

\* add_effect inserting at the head of the chain.
AddEffectFront(effect) ==
  /\ Callable
  /\ calls' = calls + 1
  /\ UNCHANGED unit
  /\ ChainLockFree
  /\ Len(effects_chain) < MaxChain
  /\ effects_chain' = << effect >> \o effects_chain
  /\ UNCHANGED << returns, errlog >>
  /\ UNCHANGED << engineVars, chainLock, levelVars,
                  streamVars, cb, nextBlock, ctl, busVars >>

\* add_effect (apply_audio_effect)
AddEffect(effect) ==
  /\ Callable
  /\ calls' = calls + 1
  /\ UNCHANGED unit
  /\ ChainLockFree
  /\ Len(effects_chain) < MaxChain
  /\ effects_chain' = Append(effects_chain, effect)
  /\ UNCHANGED << returns, errlog >>
  /\ UNCHANGED << engineVars, chainLock, levelVars,
                  streamVars, cb, nextBlock, ctl, busVars >>

\* clear_effects (clear_audio_effects)
ClearEffects ==
  /\ Callable
  /\ calls' = calls + 1
  /\ UNCHANGED unit
  /\ ChainLockFree
  /\ effects_chain' = << >>
  /\ UNCHANGED << returns, errlog >>
  /\ UNCHANGED << engineVars, chainLock, levelVars,
                  streamVars, cb, nextBlock, ctl, busVars >>

\* set_monitoring
SetMonitoring(enabled) ==
  /\ Callable
  /\ calls' = calls + 1
  /\ UNCHANGED unit
  /\ monitoring_enabled' = enabled
  /\ UNCHANGED << returns, errlog >>
  /\ UNCHANGED << engineVars, chainVars, current_levels, levelsBlk, levelsOf,
                  levelsLock, levelsRead, streamVars, cb, nextBlock, ctl, busVars >>

\* get_current_levels cloning the levels without taking their mutex.
GetCurrentLevelsNoLock ==
  /\ Callable
  /\ calls' = calls + 1
  /\ UNCHANGED unit
  /\ levelsRead' = [called |-> TRUE, levels |-> current_levels, blk |-> levelsBlk]
  /\ UNCHANGED << returns, errlog >>
  /\ UNCHANGED << engineVars, chainVars, current_levels, levelsBlk, levelsOf,
                  levelsLock, monitoring_enabled, streamVars, cb, nextBlock, ctl,
                  busVars >>

\* get_current_levels: self.current_levels.lock().unwrap().clone()
GetCurrentLevels ==
  /\ Callable
  /\ calls' = calls + 1
  /\ UNCHANGED unit
  /\ levelsLock = NoStream
  /\ levelsRead' = [called |-> TRUE, levels |-> current_levels, blk |-> levelsBlk]
  /\ UNCHANGED << returns, errlog >>
  /\ UNCHANGED << engineVars, chainVars, current_levels, levelsBlk, levelsOf,
                  levelsLock, monitoring_enabled, streamVars, cb, nextBlock, ctl,
                  busVars >>

\* A subscription that replays the frames the bus still retains.
SubscribeFromOldest(s) ==
  /\ Callable
  /\ calls' = calls + 1
  /\ UNCHANGED unit
  /\ ~subs[s].active
  /\ \A r \in Subs : r < s => subs[r].active
  /\ subs' = [subs EXCEPT ![s] =
                [active |-> TRUE, next |-> Oldest, start |-> Oldest, lost |-> 0]]
  /\ UNCHANGED << returns, errlog >>
  /\ UNCHANGED << engineVars, chainVars, levelVars,
                  streamVars, cb, nextBlock, ctl, sent >>

\* subscribe_to_audio: broadcast_tx.subscribe(); the receiver starts at the
\* tail of the bus.
Subscribe(s) ==
  /\ Callable
  /\ calls' = calls + 1
  /\ UNCHANGED unit
  /\ ~subs[s].active
  /\ \A r \in Subs : r < s => subs[r].active
  /\ subs' = [subs EXCEPT ![s] =
                [active |-> TRUE, next |-> Len(sent) + 1, start |-> Len(sent) + 1,
                 lost |-> 0]]
  /\ UNCHANGED << returns, errlog >>
  /\ UNCHANGED << engineVars, chainVars, levelVars,
                  streamVars, cb, nextBlock, ctl, sent >>

\* ------------------------------------------------------------- receivers
\* Receiver::recv returning a frame
RecvFrame(s) ==
  /\ subs[s].active
  /\ subs[s].next >= Oldest
  /\ subs[s].next <= Len(sent)
  /\ subs' = [subs EXCEPT ![s].next = @ + 1]
  /\ UNCHANGED << calls, unit >>
  /\ UNCHANGED errlog
  /\ UNCHANGED << engineVars, chainVars, levelVars,
                  streamVars, cb, nextBlock, ctl, returns, sent >>

\* Receiver::recv returning Lagged(n): the receiver fell behind the retained
\* window and skips to its oldest frame.
RecvLagged(s) ==
  /\ subs[s].active
  /\ subs[s].next < Oldest
  /\ subs' = [subs EXCEPT ![s].next = Oldest,
                          ![s].lost = @ + (Oldest - subs[s].next)]
  /\ UNCHANGED << calls, unit >>
  /\ UNCHANGED errlog
  /\ UNCHANGED << engineVars, chainVars, levelVars,
                  streamVars, cb, nextBlock, ctl, returns, sent >>

\* -------------------------------------------------- the capture callback
\* The platform invokes the data callback of a running stream with a block.
CbInvoke(s, data) ==
  /\ s \in running
  /\ cb[s].pc = "idle"
  /\ nextBlock <= MaxBlocks
  /\ cb' = [cb EXCEPT ![s] = [IdleCb EXCEPT !.pc = "lock", !.id = nextBlock,
                                              !.data = data]]
  /\ nextBlock' = nextBlock + 1
  /\ UNCHANGED << calls, unit >>
  /\ UNCHANGED errlog
  /\ UNCHANGED << engineVars, chainVars, levelVars,
                  streamVars, ctl, returns, busVars >>

\* effects_chain.lock().unwrap(); let mut output = data.to_vec();
CbLockChain(s) ==
  /\ cb[s].pc = "lock"
  /\ ChainLockFree
  /\ chainLock' = s
  /\ cb' = [cb EXCEPT ![s].pc = "effects", ![s].output = cb[s].data,
                        ![s].snap = effects_chain]
  /\ UNCHANGED << calls, unit >>
  /\ UNCHANGED errlog
  /\ UNCHANGED << engineVars, effects_chain, levelVars,
                  streamVars, nextBlock, ctl, returns, busVars >>

\* one turn of: for effect in effects.iter() { output = effect.process(&output); }
CbEffect(s) ==
  /\ cb[s].pc = "effects"
  /\ Len(cb[s].applied) < Len(effects_chain)
  /\ LET effect == effects_chain[Len(cb[s].applied) + 1] IN
       cb' = [cb EXCEPT ![s].output = Process(effect, @),
                        ![s].applied = Append(@, effect)]
  /\ UNCHANGED << calls, unit >>
  /\ UNCHANGED errlog
  /\ UNCHANGED << engineVars, chainVars, levelVars,
                  streamVars, nextBlock, ctl, returns, busVars >>

\* A callback that keeps the chain guard beyond the block expression.
CbUnlockChainKeep(s) ==
  /\ cb[s].pc = "effects"
  /\ Len(cb[s].applied) >= Len(effects_chain)
  /\ cb' = [cb EXCEPT ![s].pc = "levels"]
  /\ UNCHANGED << calls, unit >>
  /\ UNCHANGED errlog
  /\ UNCHANGED << engineVars, chainVars, levelVars,
                  streamVars, nextBlock, ctl, returns, busVars >>

\* the iterator is exhausted: the chain guard is dropped at the end of the
\* block expression
CbUnlockChain(s) ==
  /\ cb[s].pc = "effects"
  /\ Len(cb[s].applied) >= Len(effects_chain)
  /\ chainLock' = NoStream
  /\ cb' = [cb EXCEPT ![s].pc = "levels"]
  /\ UNCHANGED << calls, unit >>
  /\ UNCHANGED errlog
  /\ UNCHANGED << engineVars, effects_chain, levelVars,
                  streamVars, nextBlock, ctl, returns, busVars >>

\* The current_levels mutex can be taken.
LevelsLockFree == levelsLock = NoStream

\* peak and rms of the processed block; current_levels.lock();
\* levels.input_level = rms
CbLevels(s) ==
  /\ cb[s].pc = "levels"
  /\ LevelsLockFree
  /\ levelsLock' = s
  /\ LET peak == PeakOf(cb[s].output)
         rms == RmsOf(cb[s].output)
     IN /\ cb' = [cb EXCEPT ![s].pc = "peak", ![s].peak = peak, ![s].rms = rms]
        /\ current_levels' = [current_levels EXCEPT !.input_level = rms]
  /\ UNCHANGED << levelsBlk, levelsOf, levelsRead, monitoring_enabled >>
  /\ UNCHANGED << calls, unit >>
  /\ UNCHANGED errlog
  /\ UNCHANGED << engineVars, chainVars, streamVars,
                  nextBlock, ctl, returns, busVars >>

\* levels.peak = peak
CbLevelsPeak(s) ==
  /\ cb[s].pc = "peak"
  /\ current_levels' = [current_levels EXCEPT !.peak = cb[s].peak]
  /\ cb' = [cb EXCEPT ![s].pc = "rms"]
  /\ UNCHANGED << levelsBlk, levelsOf, levelsLock, levelsRead, monitoring_enabled >>
  /\ UNCHANGED << calls, unit >>
  /\ UNCHANGED errlog
  /\ UNCHANGED << engineVars, chainVars, streamVars,
                  nextBlock, ctl, returns, busVars >>

\* levels.rms = rms; the levels guard is dropped
CbLevelsRms(s) ==
  /\ cb[s].pc = "rms"
  /\ current_levels' = [current_levels EXCEPT !.rms = cb[s].rms]
  /\ levelsBlk' = cb[s].id
  /\ levelsOf' = [peak |-> cb[s].peak, rms |-> cb[s].rms]
  /\ levelsLock' = NoStream
  /\ cb' = [cb EXCEPT ![s].pc = "enclock"]
  /\ UNCHANGED << levelsRead, monitoring_enabled >>
  /\ UNCHANGED << calls, unit >>
  /\ UNCHANGED errlog
  /\ UNCHANGED << engineVars, chainVars, streamVars,
                  nextBlock, ctl, returns, busVars >>

\* The encoder mutex can be taken.
EncoderLockFree == encoderLock = NoStream

\* if let Ok(mut enc) = encoder.lock()
CbLockEncoder(s) ==
  /\ cb[s].pc = "enclock"
  /\ EncoderLockFree
  /\ encoderLock' = s
  /\ cb' = [cb EXCEPT ![s].pc = "encode"]
  /\ UNCHANGED << calls, unit >>
  /\ UNCHANGED errlog
  /\ UNCHANGED << configVars, chainVars, levelVars, streamVars,
                  nextBlock, ctl, returns, busVars >>

\* The frame enc.encode_float produces for a processed block.
Frame(b) == [id |-> b.id]

\* encoder.lock(), encode_float succeeds, tx.send(encoded)
CbEncodeOk(s) ==
  /\ cb[s].pc = "encode"
  /\ BusSend(Frame(cb[s]))
  /\ encoderLock' = NoStream
  /\ cb' = [cb EXCEPT ![s] = IdleCb]
  /\ UNCHANGED << calls, unit >>
  /\ UNCHANGED errlog
  /\ UNCHANGED << configVars, chainVars, levelVars,
                  streamVars, nextBlock, ctl, returns >>

\* An encode failure that also ends the capture of its stream.
CbEncodeErrStops(s) ==
  /\ cb[s].pc = "encode"
  /\ errlog' = errlog \cup {cb[s].id}
  /\ cb' = [cb EXCEPT ![s] = IdleCb]
  /\ running' = running \ {s}
  /\ encoderLock' = NoStream
  /\ UNCHANGED << calls, unit >>
  /\ UNCHANGED << configVars, chainVars, levelVars,
                  stream, built, nextBlock, ctl, returns, busVars >>

\* encoder.lock(), encode_float fails: log::error!, nothing is sent
CbEncodeErr(s) ==
  /\ cb[s].pc = "encode"
  /\ errlog' = errlog \cup {cb[s].id}
  /\ cb' = [cb EXCEPT ![s] = IdleCb]
  /\ encoderLock' = NoStream
  /\ UNCHANGED << calls, unit >>
  /\ UNCHANGED << configVars, chainVars, levelVars,
                  streamVars, nextBlock, ctl, returns, busVars >>

\* ------------------------------------------------------------------- Next
Next ==
  \/ \E c \in Configs, i \in BOOLEAN : New(c, i)
  \/ StartNoDevice
  \/ \E e \in {"DefaultStreamConfigError", "BuildStreamError"} : StartOpenError(e)
  \/ \E a \in BOOLEAN : StartBuild(a)
  \/ StartPlay
  \/ StartPlayError
  \/ StartStore
  \/ StopCapture
  \/ \E e \in EffectChoices : AddEffect(e)
  \/ ClearEffects
  \/ \E b \in BOOLEAN : SetMonitoring(b)
  \/ GetCurrentLevels
  \/ \E s \in Subs : Subscribe(s)
  \/ \E s \in Subs : RecvFrame(s)
  \/ \E s \in Subs : RecvLagged(s)
  \/ \E s \in Streams, d \in BlockInputs : CbInvoke(s, d)
  \/ \E s \in Streams : CbLockChain(s)
  \/ \E s \in Streams : CbEffect(s)
  \/ \E s \in Streams : CbUnlockChain(s)
  \/ \E s \in Streams : CbLevels(s)
  \/ \E s \in Streams : CbLevelsPeak(s)
  \/ \E s \in Streams : CbLevelsRms(s)
  \/ \E s \in Streams : CbLockEncoder(s)
  \/ \E s \in Streams : CbEncodeOk(s)
  \/ \E s \in Streams : CbEncodeErr(s)

Spec == Init /\ [][Next]_vars

\* ------------------------------------------------ calls that wait
\* The control-plane calls that wait: for a mutex the capture thread may
\* hold, or (dropping the stored stream) for the capture thread itself.
WaitingOps == {"stop_capture", "add_effect", "clear_effects", "get_current_levels"}

\* The call has been entered (the engine's tokio Mutex is held) and it is at
\* its lock() or at the assignment that drops the stream.
Enter(op) ==
  /\ Callable
  /\ op = "add_effect" => Len(effects_chain) < MaxChain
  /\ calls' = calls + 1
  /\ ctl' = [pc |-> op, new |-> NoStream]
  /\ UNCHANGED << unit, returns, errlog >>
  /\ UNCHANGED << engineVars, chainVars, levelVars, streamVars, cb, nextBlock,
                  busVars >>

\* add_effect: self.effects_chain.lock().unwrap().push(effect)
AddEffectLocked(effect) ==
  /\ ctl.pc = "add_effect"
  /\ ChainLockFree
  /\ effects_chain' = Append(effects_chain, effect)
  /\ ctl' = [pc |-> "idle", new |-> NoStream]
  /\ UNCHANGED << calls, unit, returns, errlog >>
  /\ UNCHANGED << engineVars, chainLock, levelVars, streamVars, cb, nextBlock,
                  busVars >>

\* clear_effects: self.effects_chain.lock().unwrap().clear()
ClearEffectsLocked ==
  /\ ctl.pc = "clear_effects"
  /\ ChainLockFree
  /\ effects_chain' = << >>
  /\ ctl' = [pc |-> "idle", new |-> NoStream]
  /\ UNCHANGED << calls, unit, returns, errlog >>
  /\ UNCHANGED << engineVars, chainLock, levelVars, streamVars, cb, nextBlock,
                  busVars >>

\* get_current_levels: self.current_levels.lock().unwrap().clone()
GetCurrentLevelsLocked ==
  /\ ctl.pc = "get_current_levels"
  /\ LevelsLockFree
  /\ levelsRead' = [called |-> TRUE, levels |-> current_levels, blk |-> levelsBlk]
  /\ ctl' = [pc |-> "idle", new |-> NoStream]
  /\ UNCHANGED << calls, unit, returns, errlog >>
  /\ UNCHANGED << engineVars, chainVars, current_levels, levelsBlk, levelsOf,
                  levelsLock, monitoring_enabled, streamVars, cb, nextBlock,
                  busVars >>

\* stop_capture: the stream mutex is taken and *stream = None drops the
\* stream stored before.
StopCaptureJoined ==
  /\ ctl.pc = "stop_capture"
  /\ CanDrop(stream)
  /\ built' = built \ {stream}
  /\ running' = running \ {stream}
  /\ stream' = NoStream
  /\ ctl' = [pc |-> "idle", new |-> NoStream]
  /\ Returned("stop_capture", "Ok")
  /\ UNCHANGED << calls, unit, errlog >>
  /\ UNCHANGED << engineVars, chainVars, levelVars, cb, nextBlock, busVars >>

\* The steps in which a waiting control-plane call gets what it waits for.
\* The effect added is a reverb: no effect's process takes a lock.
ControlAcquire ==
  \/ AddEffectLocked(ReverbNew)
  \/ ClearEffectsLocked
  \/ GetCurrentLevelsLocked
  \/ StopCaptureJoined
  \/ StartStore

\* The steps in which a callback takes one of its three mutexes.
CbAcquire(s) == CbLockChain(s) \/ CbLevels(s) \/ CbLockEncoder(s)

\* The steps of a callback between and after its lock() calls.
CbRun(s) ==
  \/ CbEffect(s)
  \/ CbUnlockChain(s)
  \/ CbLevelsPeak(s)
  \/ CbLevelsRms(s)
  \/ CbEncodeOk(s)
  \/ CbEncodeErr(s)

\* The engine with its waiting calls entered and completed in separate steps.
LockNext ==
  \/ \E c \in Configs, i \in BOOLEAN : New(c, i)
  \/ StartNoDevice
  \/ \E e \in {"DefaultStreamConfigError", "BuildStreamError"} : StartOpenError(e)
  \/ \E a \in BOOLEAN : StartBuild(a)
  \/ StartPlay
  \/ StartPlayError
  \/ \E b \in BOOLEAN : SetMonitoring(b)
  \/ \E op \in WaitingOps : Enter(op)
  \/ ControlAcquire
  \/ \E s \in Streams, d \in BlockInputs : CbInvoke(s, d)
  \/ \E s \in Streams : CbAcquire(s)
  \/ \E s \in Streams : CbRun(s)

\* The capture threads and the control-plane task are scheduled (a step
\* that stays possible is taken), and a mutex or a join that becomes
\* available again and again is eventually granted to the one waiting for
\* it.  The platform need not deliver further blocks.
LockFairness ==
  /\ \A s \in Streams : WF_vars(CbRun(s)) /\ SF_vars(CbAcquire(s))
  /\ WF_vars(StartPlay \/ StartPlayError)
  /\ SF_vars(ControlAcquire)

LockSpec == Init /\ [][LockNext]_vars /\ LockFairness

\* The data callback's argument is a slice of any length: the platform may
\* also invoke it with no samples.
NextAnyBlock ==
  \/ Next
  \/ \E s \in Streams : CbInvoke(s, << >>)

\* ------------------------------------------------- an effect on its own
\* The envelope local at the end of process (0 for the effects without one).
EnvelopeAfter(e, input, envelope) ==
  CASE e.kind = "Compressor" -> CompressorLoop(e, input, envelope, << >>).envelope
    [] e.kind = "Noise Gate" -> NoiseGateLoop(e, input, envelope, << >>).envelope
    [] OTHER -> 0

\* The record of a process call.
ProcessCall(e, b, out) ==
  [NoCall EXCEPT !.op = "process", !.chain = << e >>, !.input = b, !.output = out,
                 !.before = GetParameters(e), !.after = GetParameters(e)]

\* What is remembered of the first block after block k gave output out.
Remember(first, k, out) ==
  IF first.k = 0 THEN [NoFirst EXCEPT !.k = k, !.output = out]
  ELSE IF first.k = k THEN [first EXCEPT !.again = first.between]
  ELSE [first EXCEPT !.between = TRUE, !.again = FALSE]

\* process with an envelope that lives in the effect and is not reset.
UnitProcessCarry(k) ==
  /\ LET e == unit.effect
         b == UnitBlocks[k]
         out == CASE e.kind = "Compressor" ->
                       CompressorLoop(e, b, unit.envelope, << >>).output
                  [] e.kind = "Noise Gate" ->
                       NoiseGateLoop(e, b, unit.envelope, << >>).output
                  [] OTHER -> Process(e, b)
     IN unit' = [unit EXCEPT !.last = ProcessCall(e, b, out),
                             !.first = Remember(@, k, out),
                             !.envelope = EnvelopeAfter(e, b, unit.envelope)]
  /\ UNCHANGED pipelineVars

\* effect.process(&block): &self, the envelope is a local starting at 0.0
\* and dropped on return
UnitProcess(k) ==
  /\ LET e == unit.effect
         b == UnitBlocks[k]
         out == IF e \in DOMAIN Processed THEN Processed[e][k] ELSE Process(e, b)
     IN unit' = [unit EXCEPT !.last = ProcessCall(e, b, out),
                             !.first = Remember(@, k, out),
                             !.envelope = 0]
  /\ UNCHANGED pipelineVars

\* effect.set_parameter(name, value)
UnitSetParameter(name, value) ==
  /\ LET e == unit.effect
         after == SetParameter(e, name, value)
     IN unit' = [unit EXCEPT
                   !.effect = after,
                   !.last = [NoCall EXCEPT !.op = "set_parameter", !.name = name,
                                           !.value = value,
                                           !.before = GetParameters(e),
                                           !.after = GetParameters(after)],
                   !.first = IF after = e THEN @ ELSE NoFirst]
  /\ UNCHANGED pipelineVars

\* The callback's effects step on a block, for a chain of effects.
UnitChain(c, b) ==
  /\ unit' = [unit EXCEPT
                !.last = [NoCall EXCEPT !.op = "chain", !.chain = c, !.input = b,
                                        !.output = ProcessAll(c, b)]]
  /\ UNCHANGED pipelineVars

UnitInit == EngineInit /\ unit \in {Fresh(e) : e \in UnitEffects}

UnitNext ==
  \/ \E k \in DOMAIN UnitBlocks : UnitProcess(k)
  \/ \E n \in UnitNames, v \in UnitValues : UnitSetParameter(n, v)
  \/ \E c \in UnitChains, b \in BlockInputs \cup { << >> } : UnitChain(c, b)

\* The effects exercised on their own, as a unit test does.
UnitSpec == UnitInit /\ [][UnitNext]_vars

\* AudioEngine::new is also handed configurations other than the default one.
NextAnyConfig ==
  \/ Next
  \/ \E c \in MonoConfigs, i \in BOOLEAN : New(c, i)

\* The engine built from any AudioConfig.
SpecAnyConfig == Init /\ [][NextAnyConfig]_vars

\* The engine with a platform that also delivers empty blocks.
SpecAnyBlock == Init /\ [][NextAnyBlock]_vars

\* ================================================================ claims
InFlight == {s \in Streams : cb[s].pc # "idle"}

\* No stream is stored and no start_capture is under way.
Stopped == engine = "ok" /\ stream = NoStream /\ ctl.pc = "idle"

\* C1: at most one capture stream is live (its callback being invoked) at
\* any moment, also while start_capture replaces a running stream.
C1_AtMostOneLiveStream == Cardinality(running) <= 1

\* C2: every block is processed against the Effects Chain as it was when the
\* callback took it: while the block is in its effects step the chain is
\* still that snapshot and the effects applied so far are a prefix of it;
\* after the step exactly the snapshot was applied, in order.
C2_ConsistentSnapshot ==
  \A s \in Streams :
    /\ cb[s].pc = "effects" =>
         /\ effects_chain = cb[s].snap
         /\ Len(cb[s].applied) <= Len(cb[s].snap)
         /\ cb[s].applied = SubSeq(cb[s].snap, 1, Len(cb[s].applied))
    /\ cb[s].pc \in {"levels", "peak", "rms", "enclock", "encode"} =>
         /\ cb[s].applied = cb[s].snap
         /\ cb[s].output = ProcessAll(cb[s].snap, cb[s].data)

\* A block processed with a non-empty snapshot is still in flight while the
\* chain has already been changed by add_effect or clear_effects.
C2_Witness ==
  \E s \in Streams :
    /\ cb[s].pc \in {"levels", "peak", "rms", "enclock", "encode"}
    /\ cb[s].snap # << >>
    /\ effects_chain # cb[s].snap

\* C3: the frames a subscriber can receive are in the order in which their
\* blocks were captured, one frame per block at most.
C3_FramesInCaptureOrder ==
  \A r \in ActiveSubs :
    \A i, j \in subs[r].start .. Len(sent) :
      i < j => sent[i].id < sent[j].id

\* C4: once stop_capture has released the stream, no stream is running, at
\* most one block is still in flight, no further block is captured, and
\* Levels and the bus change only through that in-flight block.
C4_StopSilencesCallback ==
  /\ [](Stopped => running = {} /\ Cardinality(InFlight) <= 1)
  /\ [][(Stopped /\ Stopped') =>
          /\ nextBlock' = nextBlock
          /\ InFlight = {} => UNCHANGED << current_levels, levelsBlk, sent >>]_vars

\* stop_capture returned after blocks had been metered, and more blocks
\* could still have been delivered.
C4_Witness ==
  /\ Stopped
  /\ returns # << >>
  /\ LastReturn = << "stop_capture", "Ok" >>
  /\ levelsBlk > 0
  /\ nextBlock <= MaxBlocks

\* C5: a failed encode publishes no frame for its block, reaches no caller,
\* leaves the streams as they are and returns the capture thread to where
\* the next block can be delivered.
C5_EncodeFailureDropsBlock ==
  /\ [](\A i \in 1..Len(sent) : sent[i].id \notin errlog)
  /\ [][errlog' # errlog =>
          /\ UNCHANGED << stream, built, running, sent, subs, returns, ctl >>
          /\ \A s \in Streams : cb'[s] # cb[s] => cb'[s].pc = "idle"]_vars
  /\ [](\A s \in running :
          (cb[s].pc = "idle" /\ nextBlock <= MaxBlocks)
            => ENABLED (\E d \in BlockInputs : CbInvoke(s, d)))

\* After an encode failure was logged, a later block of a running stream was
\* published.
C5_Witness ==
  /\ running # {}
  /\ \E e \in errlog : \E i \in 1..Len(sent) : sent[i].id > e

\* C6: publishing never waits for a receiver; a receiver that has more than
\* Capacity unread frames is told Lagged(n) on its next receive and skips
\* exactly its n oldest unread frames, any other receive yields the next
\* frame; a receive changes neither the bus nor another receiver, and a send
\* appends the frame whatever the receivers' cursors are.
C6_BusNeverBlocks ==
  /\ [](\A s \in Streams : cb[s].pc = "encode" => ENABLED CbEncodeOk(s))
  /\ [][\A r \in Subs :
          (subs[r].active /\ subs'[r] # subs[r]) =>
            /\ sent' = sent
            /\ \A q \in Subs \ {r} : subs'[q] = subs[q]
            /\ IF Unread(r) > Capacity
                 THEN /\ subs'[r].lost = subs[r].lost + (Unread(r) - Capacity)
                      /\ subs'[r].next = subs[r].next + (Unread(r) - Capacity)
                 ELSE /\ subs'[r].lost = subs[r].lost
                      /\ subs'[r].next = subs[r].next + 1]_vars
  /\ [][sent' # sent =>
          /\ subs' = subs
          /\ Len(sent') = Len(sent) + 1
          /\ SubSeq(sent', 1, Len(sent)) = sent]_vars

\* Two receivers subscribed at the same point: one was told Lagged, the
\* other has received every frame.
C6_Witness ==
  \E r, q \in ActiveSubs :
    /\ subs[r].start = subs[q].start
    /\ subs[r].lost > 0
    /\ subs[q].lost = 0
    /\ subs[q].next = Len(sent) + 1
    /\ subs[q].next > subs[q].start

\* C7: a new receiver's cursor starts behind every frame already on the bus
\* and never moves back, so it receives only frames published after its
\* subscription; a frame published while there is no receiver is not kept,
\* and the streams go on.
C7_LateSubscriberSeesOnlyNewFrames ==
  /\ [](\A r \in ActiveSubs :
          subs[r].start <= subs[r].next /\ subs[r].next <= Len(sent) + 1)
  /\ [][\A r \in Subs :
          /\ (~subs[r].active /\ subs'[r].active) =>
               (subs'[r].next = Len(sent) + 1 /\ subs'[r].start = Len(sent) + 1)
          /\ subs[r].active =>
               (subs'[r].active /\ subs'[r].next >= subs[r].next
                /\ subs'[r].start = subs[r].start)]_vars
  /\ [][(ActiveSubs = {} /\ \E s \in Streams : cb[s].pc = "encode" /\ cb'[s].pc = "idle")
          => (sent' = sent /\ UNCHANGED << stream, built, running >>)]_vars

\* A receiver subscribed after frames were on the bus and has received a
\* later one.
C7_Witness ==
  \E r \in ActiveSubs : subs[r].start > 1 /\ subs[r].next > subs[r].start

\* Everything of the engine a control-plane call can change, apart from the
\* record of what it returned.
engineState ==
  << engineVars, chainVars, levelVars, streamVars, cb, nextBlock, ctl, busVars,
     errlog >>

\* C8: whenever stop_capture has returned it returned success and left no
\* stream; and right after a stop_capture a further stop_capture is possible
\* and changes nothing of the engine.
C8_StopIdempotent ==
  /\ (ctl.pc = "idle" /\ returns # << >> /\ LastReturn[1] = "stop_capture") =>
       /\ LastReturn[2] = "Ok"
       /\ stream = NoStream
       /\ built = {}
       /\ running = {}
  /\ (Callable /\ returns # << >> /\ LastReturn[1] = "stop_capture") =>
       /\ ENABLED (StopCapture /\ UNCHANGED engineState)
       /\ ~ ENABLED (StopCapture /\ ~ UNCHANGED engineState)

\* stop_capture was called twice in a row after a capture that had metered
\* blocks.
C8_Witness ==
  /\ returns = << << "start_capture", "Ok" >>, << "stop_capture", "Ok" >>,
                  << "stop_capture", "Ok" >> >>
  /\ levelsBlk > 0

\* The errors start_capture returns when the platform cannot open a stream.
PlatformErrors == {"DefaultStreamConfigError", "BuildStreamError", "PlayStreamError"}

\* start_capture, stop_capture, start_capture were the last three lifecycle
\* calls and the platform opened the stream both times.
C9_Scenario ==
  /\ ctl.pc = "idle"
  /\ input_device
  /\ Len(returns) = 3
  /\ returns[1][1] = "start_capture" /\ returns[1][2] \notin PlatformErrors
  /\ returns[2][1] = "stop_capture"
  /\ returns[3][1] = "start_capture" /\ returns[3][2] \notin PlatformErrors

\* C9: start_capture, stop_capture, start_capture on a device the platform
\* can open succeed at every step and leave exactly one stream, the stored one.
C9_StartStopStart ==
  C9_Scenario =>
    /\ \A i \in 1..3 : returns[i][2] = "Ok"
    /\ stream # NoStream
    /\ built = {stream}
    /\ running = {stream}

\* The three calls were made and blocks are being captured again.
C9_Witness == C9_Scenario /\ InFlight # {}

\* C10: without an input device every start_capture returns NoInputDevice
\* and no stream or callback ever exists; and AudioEngine::new succeeds
\* without a device whenever the codec accepts the configuration.
C10_NoInputDevice ==
  /\ (engine = "ok" /\ ~input_device) =>
       /\ stream = NoStream /\ built = {} /\ running = {} /\ InFlight = {}
       /\ ctl.pc = "idle"
       /\ \A i \in 1..Len(returns) :
            returns[i][1] = "start_capture" => returns[i][2] = "NoInputDevice"
  /\ engine = "unbuilt" =>
       \A c \in Configs :
         c.sample_rate \in OpusRates => ENABLED (New(c, FALSE) /\ engine' = "ok")

\* An engine built without an input device was asked to start capturing.
C10_Witness ==
  /\ engine = "ok"
  /\ ~input_device
  /\ returns # << >>
  /\ LastReturn = << "start_capture", "NoInputDevice" >>

\* The block after the first n effects of chain c, each applied to the whole
\* output of the one before it.
RECURSIVE InOrder(_, _, _)
InOrder(c, n, block) ==
  IF n = 0 THEN block ELSE Process(c[n], InOrder(c, n - 1, block))

\* C11: the chain changes only by an append at its end or by being emptied;
\* add_effect appends whatever the chain already holds; and a block is
\* transformed by the effects of the chain, once each, first added first,
\* an empty chain leaving it as captured.
C11_ChainInsertionOrder ==
  /\ [][effects_chain' # effects_chain =>
          \/ effects_chain' = << >>
          \/ /\ Len(effects_chain') = Len(effects_chain) + 1
             /\ SubSeq(effects_chain', 1, Len(effects_chain)) = effects_chain]_vars
  /\ []((Callable /\ ChainLockFree /\ Len(effects_chain) < MaxChain) =>
          \A e \in EffectChoices :
            /\ ENABLED (AddEffect(e) /\ effects_chain' = Append(effects_chain, e))
            /\ ~ ENABLED (AddEffect(e) /\ effects_chain' # Append(effects_chain, e)))
  /\ []((Callable /\ ChainLockFree) => ENABLED (ClearEffects /\ effects_chain' = << >>))
  /\ [](\A s \in Streams :
          /\ cb[s].pc = "effects" =>
               cb[s].output = InOrder(effects_chain, Len(cb[s].applied), cb[s].data)
          /\ cb[s].pc \in {"levels", "peak", "rms", "enclock", "encode"} =>
               /\ cb[s].output = InOrder(cb[s].snap, Len(cb[s].snap), cb[s].data)
               /\ cb[s].snap = << >> => cb[s].output = cb[s].data)

\* A block went through a chain of two different effects whose order
\* matters, and through a chain holding the same effect twice.
C11_Witness ==
  \E s \in Streams :
    /\ cb[s].pc = "encode"
    /\ Len(cb[s].snap) = 2
    /\ cb[s].snap[1] # cb[s].snap[2]
    /\ cb[s].output # Process(cb[s].snap[1], Process(cb[s].snap[2], cb[s].data))

\* The levels of the block metered last, or the initial ones.
OneBlockLevels ==
  IF levelsBlk = 0 THEN AudioLevelsDefault
  ELSE [input_level |-> levelsOf.rms, output_level |-> 0,
        peak |-> levelsOf.peak, rms |-> levelsOf.rms]

\* C12: get_current_levels returns the initial levels or the peak, rms and
\* input_level of the one block metered last, never values of two blocks;
\* and it can complete whenever the levels mutex is free, whoever holds the
\* chain mutex.
C12_LevelsOfOneBlock ==
  /\ [][levelsRead' # levelsRead =>
          /\ levelsRead'.called
          /\ levelsRead'.levels = OneBlockLevels
          /\ levelsRead'.blk = levelsBlk]_vars
  /\ []((Callable /\ LevelsLockFree) =>
          /\ ENABLED (GetCurrentLevels /\ levelsRead'.levels = OneBlockLevels)
          /\ ~ ENABLED (GetCurrentLevels /\ levelsRead'.levels # OneBlockLevels))
  /\ [](levelsRead.called /\ levelsRead.blk = 0 =>
          levelsRead.levels = AudioLevelsDefault)

\* get_current_levels returned the levels of a block while a later block was
\* inside the callback, holding the chain mutex.
C12_Witness ==
  /\ levelsRead.called
  /\ levelsRead.blk > 0
  /\ levelsRead.levels.peak > 0
  /\ \E s \in Streams : cb[s].pc = "effects" /\ cb[s].id > levelsRead.blk

\* C13: whenever the levels can be read (their mutex is free), input_level
\* equals rms, output_level is 0 and all four fields are non-negative numbers.
C13_LevelsInvariant ==
  LevelsLockFree =>
    /\ current_levels.input_level = current_levels.rms
    /\ current_levels.output_level = 0
    /\ \A f \in {"input_level", "output_level", "peak", "rms"} :
         current_levels[f] # NaN /\ current_levels[f] >= 0

\* C14: the encoder and the decoder of a constructed engine have the
\* sample rate and the channel count of the AudioConfig it was built from.
C14_CodecMatchesConfig ==
  engine = "ok" =>
    /\ encoder.sample_rate = sample_rate /\ encoder.channels = channels
    /\ decoder.sample_rate = sample_rate /\ decoder.channels = channels

\* The order of the callback's positions.
CallbackOrder ==
  { << "idle", "lock" >>, << "lock", "effects" >>, << "effects", "levels" >>,
    << "levels", "peak" >>, << "peak", "rms" >>, << "rms", "enclock" >>,
    << "enclock", "encode" >>, << "encode", "idle" >> }

\* C19: the callback goes through effects, metering, the overwrite of the
\* levels, encoding and publishing in this order; so when a block is about
\* to be encoded, when its frame is on the bus and when its encoding has
\* failed, the levels hold the metering of that block or of a block captured
\* later.
C19_LevelsBeforeEncode ==
  /\ [][\A s \in Streams :
          cb'[s].pc # cb[s].pc => << cb[s].pc, cb'[s].pc >> \in CallbackOrder]_vars
  /\ [](\A s \in Streams : cb[s].pc = "encode" => levelsBlk >= cb[s].id)
  /\ [](\A i \in 1..Len(sent) : levelsBlk >= sent[i].id)
  /\ [](\A e \in errlog : levelsBlk >= e)

\* ------------------------------------------- claims about single effects
\* The last call was process on an effect of one of these kinds.
Processed_By(kinds) ==
  unit.last.op = "process" /\ unit.last.chain[1].kind \in kinds

\* C15: process returns a block of exactly the length of its input, for
\* each of the four effects, any parameters and any block, the empty one
\* included; and so does the callback's pass through a whole chain.
C15_ProcessKeepsLength ==
  unit.last.op \in {"process", "chain"} =>
    Len(unit.last.output) = Len(unit.last.input)

\* An effect with parameters at the end of their ranges processed a full
\* block.
C15_Witness ==
  /\ Processed_By({"Noise Gate"})
  /\ unit.effect \notin DefaultEffects
  /\ Len(unit.last.input) = FrameSize

\* C16: set_parameter with a name get_parameters does not list changes no
\* parameter value; with a listed name it changes that parameter's value
\* and no other.
C16_UnknownNameIgnored ==
  unit.last.op = "set_parameter" =>
    LET before == unit.last.before
        after == unit.last.after
    IN /\ Len(after) = Len(before)
       /\ \A i \in 1..Len(before) :
            /\ after[i].name = before[i].name
            /\ after[i].value =
                 IF before[i].name = unit.last.name THEN unit.last.value
                 ELSE before[i].value

\* Every parameter is inside the range get_parameters advertises for it.
InRange(params) ==
  \A i \in 1..Len(params) :
    params[i].min <= params[i].value /\ params[i].value <= params[i].max

Finite(x) == x # NaN /\ Abs(x) # Infinity

\* C17: a compressor or a noise gate whose parameters are inside their
\* ranges turns a block of zeros into a block of zeros of the same length,
\* and the gain it computes on silence is a finite number.
C17_SilenceStaysSilent ==
  ( /\ Processed_By({"Compressor", "Noise Gate"})
    /\ InRange(unit.last.before)
    /\ \A i \in 1..Len(unit.last.input) : unit.last.input[i] = 0 ) =>
    /\ unit.last.output = unit.last.input
    /\ Finite(IF unit.effect.kind = "Compressor" THEN CompressorGain(unit.effect, 0)
              ELSE NoiseGateGain(unit.effect, 0))

\* A compressor with non-default parameters inside the ranges processed a
\* block of zeros.
C17_Witness ==
  /\ Processed_By({"Compressor"})
  /\ unit.effect \notin DefaultEffects
  /\ InRange(unit.last.before)
  /\ unit.last.input = << 0, 0, 0 >>

\* C18: the compressor with default parameters never raises the amplitude
\* of a sample, and on a full block of constant amplitude 0.9 it returns a
\* full block with at least one sample lowered.
C18_DefaultCompressorNeverAmplifies ==
  (Processed_By({"Compressor"}) /\ unit.effect = CompressorNew) =>
    /\ Len(unit.last.output) = Len(unit.last.input)
    /\ \A i \in 1..Len(unit.last.input) :
         Abs(unit.last.output[i]) <= Abs(unit.last.input[i])
    /\ unit.last.input = Tone =>
         /\ Len(unit.last.output) = FrameSize
         /\ \E i \in 1..FrameSize : Abs(unit.last.output[i]) < Abs(unit.last.input[i])

\* The default compressor processed the full block of amplitude 0.9.
C18_Witness ==
  /\ Processed_By({"Compressor"})
  /\ unit.effect = CompressorNew
  /\ unit.last.input = Tone

\* C20: with its parameters unchanged an effect returns for a block what it
\* returned for that block before, whatever it processed in between, and
\* process changes no parameter.
C20_ProcessIsStateless ==
  /\ [](unit.last.op = "process" =>
          /\ unit.last.after = unit.last.before
          /\ unit.first.k # 0
          /\ unit.last.input = UnitBlocks[unit.first.k] =>
               unit.last.output = unit.first.output)
  /\ [][unit'.last.op = "process" => unit'.effect = unit.effect]_vars

\* A compressor or gate processed a block, then another one, then the first
\* one again.
C20_Witness ==
  /\ Processed_By({"Compressor", "Noise Gate"})
  /\ unit.first.again
  /\ unit.last.input = UnitBlocks[unit.first.k]
  /\ Len(unit.last.input) > 0

\* ------------------------------------------------ claims about the locks
\* C21: while a block is in its effects-processing step, with a process
\* call of the chain still to run, its callback does not hold the effects_chain mutex, so a clear_effects (or add_effect) the
\* control plane issues then takes the lock at once.
C21_ChainLockFreeWhileProcessing ==
  \A s \in Streams :
    cb[s].pc = "effects" /\ Len(cb[s].applied) < Len(cb[s].snap) =>
      /\ chainLock # s
      /\ Callable => ENABLED ClearEffects

\* The mutexes a capture thread holds.
LocksHeld(s) ==
  {l \in {"effects_chain", "current_levels", "encoder"} :
     CASE l = "effects_chain" -> chainLock = s
       [] l = "current_levels" -> levelsLock = s
       [] l = "encoder" -> encoderLock = s}

\* C22: a callback never holds two of the effects_chain, current_levels and
\* encoder mutexes at once and holds none when it asks for one; no mutex is
\* held while no callback is in flight; and every callback invocation and
\* every control-plane call that has been entered, whatever it waits for,
\* completes.
C22_LockProtocolDeadlockFree ==
  /\ [](\A s \in Streams :
          /\ Cardinality(LocksHeld(s)) <= 1
          /\ cb[s].pc \in {"idle", "lock", "levels", "enclock"} => LocksHeld(s) = {})
  /\ \A s \in Streams : (cb[s].pc # "idle") ~> (cb[s].pc = "idle")
  /\ (ctl.pc # "idle") ~> (ctl.pc = "idle")

\* clear_effects waits for the effects_chain mutex, which a capture thread
\* holds between two process calls of the chain.
C22_Witness ==
  /\ ctl.pc = "clear_effects"
  /\ \E s \in Streams :
       /\ chainLock = s
       /\ cb[s].applied # << >>
       /\ Len(cb[s].applied) < Len(cb[s].snap)

\* ------------------------------------- claims about a failed start_capture
\* A step in which a start_capture call returns an error: from inside the
\* call (play failed), or at once (no device, no configuration, no stream).
FailedStart ==
  \/ ctl.pc = "play" /\ ctl'.pc = "idle"
  \/ /\ ctl' = ctl
     /\ returns' # returns
     /\ returns'[Len(returns')][1] = "start_capture"
     /\ returns'[Len(returns')][2] # "Ok"

\* The step in which a start_capture call builds its stream.
StartBuilds == ctl.pc = "idle" /\ ctl'.pc = "play"

\* C23: a start_capture that returns an error, and every step it took before,
\* leaves the stored stream handle as it was, the stored stream existing and
\* running if it was, and the Effects Chain, the Levels and the receivers
\* unchanged; the stream it may have built is gone when it returns.
C23_FailedStartChangesNothing ==
  /\ [][(FailedStart \/ StartBuilds) =>
          /\ UNCHANGED << stream, effects_chain, current_levels, levelsBlk,
                          subs, sent >>
          /\ stream # NoStream =>
               /\ stream \in built' <=> stream \in built
               /\ stream \in running' <=> stream \in running]_vars
  /\ [][FailedStart =>
          /\ ctl.new # NoStream => ctl.new \notin built' \cup running'
          /\ built' \ {ctl.new} = built \ {ctl.new}
          /\ running' = running]_vars

\* stream.play() failed in a start_capture on an engine that was capturing:
\* the stream stored before is still stored and running, and its blocks had
\* been metered.
C23_Witness ==
  /\ ctl.pc = "idle"
  /\ returns # << >>
  /\ LastReturn = << "start_capture", "PlayStreamError" >>
  /\ stream # NoStream
  /\ stream \in running
  /\ levelsBlk > 0
  /\ effects_chain # << >>

====
